---- MODULE Spec2Model ----
(***************************************************************************)
(* A model of the 4D testing extension: the source scanner (parseMarkdown),*)
(* the line-continuation mapper (mapFunctionLineToSourceLine), the entity  *)
(* tree kept by discoverTests/updateFromDisk, and the run orchestration    *)
(* and result reconciliation of startTestRun/handleResults.                *)
(*                                                                         *)
(* Texts are TLA+ strings; the JavaScript string and regular-expression    *)
(* operations the code uses are defined below over Len, SubSeq and \o.     *)
(***************************************************************************)
EXTENDS Integers, Sequences, FiniteSets, TLC

VARIABLES
    scan,        \* one call of parseMarkdown: its arguments, locals and events
    mapper,      \* one call of mapFunctionLineToSourceLine
    items,       \* every TestItem created so far; an item is known by its index
    roots,       \* controller.items: the indices of the File items, in order
    passes,      \* the parse passes started, in order: the File item of each
                 \* and the text its file read returned (None while awaited)
    tagRegistry, \* the tag names getOrCreateTag has registered, in order
    run          \* the test run: request, targets, subprocess, reports

sysVars == <<items, roots, passes, tagRegistry, run>>

vars == <<scan, mapper, items, roots, passes, tagRegistry, run>>

(***************************************************************************)
(* JavaScript string operations                                            *)
(***************************************************************************)

None == "<undefined>"

Min(S) == CHOOSE x \in S : \A y \in S : x <= y
Max(S) == CHOOSE x \in S : \A y \in S : y <= x

CharAt(s, i) == SubSeq(s, i, i)

\* s.substring(i - 1): the text from the 1-based position i to the end (the
\* text is taken once, as the value t)
From(s, i) == CHOOSE r \in {SubSeq(t, i, Len(t)) : t \in {s}} : TRUE

startsWith(s, p) == Len(s) >= Len(p) /\ SubSeq(s, 1, Len(p)) = p

endsWith(s, p) == Len(s) >= Len(p) /\ SubSeq(s, Len(s) - Len(p) + 1, Len(s)) = p

\* the 1-based positions at which p occurs in s
Occurrences(s, p) ==
    {i \in 1..(Len(s) - Len(p) + 1) : SubSeq(s, i, i + Len(p) - 1) = p}

\* s.indexOf(p), 1-based; 0 stands for JavaScript's -1
indexOf(s, p) == IF Occurrences(s, p) = {} THEN 0 ELSE Min(Occurrences(s, p))

\* s.lastIndexOf(p), 1-based; 0 stands for JavaScript's -1
lastIndexOf(s, p) == IF Occurrences(s, p) = {} THEN 0 ELSE Max(Occurrences(s, p))

includes(s, p) == Occurrences(s, p) # {}

\* s.split(c) for a non-empty separator c
RECURSIVE split(_, _)
split(s, c) ==
    LET i == indexOf(s, c)
    IN  IF i = 0 THEN <<s>>
        ELSE <<SubSeq(s, 1, i - 1)>>
             \o (CHOOSE r \in {split(rest, c) : rest \in {From(s, i + Len(c))}} : TRUE)

\* xs.join(c)
RECURSIVE join(_, _)
join(xs, c) ==
    IF xs = <<>> THEN ""
    ELSE IF Len(xs) = 1 THEN xs[1]
    ELSE xs[1] \o c \o join(Tail(xs), c)

\* the characters String.prototype.trim removes (those that occur in the texts)
WhiteSpace == {" ", "\t", "\r", "\n"}

\* the characters the regular expression "." does not match
LineTerminators == {"\n", "\r"}

RECURSIVE trimStart(_)
trimStart(s) ==
    IF Len(s) > 0 /\ CharAt(s, 1) \in WhiteSpace THEN trimStart(From(s, 2)) ELSE s

RECURSIVE trimEnd(_)
trimEnd(s) ==
    IF Len(s) > 0 /\ CharAt(s, Len(s)) \in WhiteSpace
    THEN trimEnd(SubSeq(s, 1, Len(s) - 1))
    ELSE s

trim(s) == trimEnd(trimStart(s))

\* every character of s is matched by the regular expression "."
AllDots(s) == \A i \in 1..Len(s) : CharAt(s, i) \notin LineTerminators

\* a JavaScript string used as a condition: "" and undefined are falsy
Truthy(s) == s # "" /\ s # None

\* xs.map(t => t.trim())
TrimAll(xs) == [i \in 1..Len(xs) |-> trim(xs[i])]

(***************************************************************************)
(* parser.ts: parseMarkdown                                                *)
(***************************************************************************)

TagsPrefix == "// #tags: "
FunctionPrefix == "Function "

\* headingRe = /^.*?(?:\/\/ #tags: (.*))?\nFunction (test_.*)\(.*$/ applied to
\* combined.  A line holds no "\n", so combined holds at most one: the regular
\* expression's "\n" is that one, "^.*?(...)?" spans the text before it and
\* "Function (test_.*)\(.*$" the text after it.  The lazy ".*?" stops at the
\* first "// #tags: " of the text before; group 1 is what follows it (undefined
\* when the group takes no part), group 2 runs to the last "(" (".*" is greedy).
\* The result is <<matched, group 1, group 2>>.
headingRe(combined) ==
    LET nl     == indexOf(combined, "\n")
        before == SubSeq(combined, 1, nl - 1)
        after  == From(combined, nl + 1)
        paren  == lastIndexOf(after, "(")
        tagAt  == indexOf(before, TagsPrefix)
        ok     == /\ nl # 0
                  /\ AllDots(before)
                  /\ AllDots(after)
                  /\ startsWith(after, FunctionPrefix \o "test_")
                  /\ paren > Len(FunctionPrefix \o "test_")
    IN  IF ~ok THEN <<FALSE, None, None>>
        ELSE <<TRUE,
               IF tagAt = 0 THEN None ELSE From(before, tagAt + Len(TagsPrefix)),
               SubSeq(after, Len(FunctionPrefix) + 1, paren - 1)>>

\* new vscode.Range(new vscode.Position(l1, c1), new vscode.Position(l2, c2))
Range(l1, c1, l2, c2) ==
    [startLine |-> l1, startCol |-> c1, endLine |-> l2, endCol |-> c2]

\* The body of parseMarkdown's loop for the 0-based line lineNo: the locals
\* after it, as [lastline, foundFunction, events] (events: the calls made on the
\* events object; this version of parseMarkdown calls onHeading only).
ParseLine(st, lines, lineNo) ==
    LET line     == lines[lineNo + 1]
        combined == (IF Truthy(st.lastline) THEN st.lastline \o "\n" ELSE "") \o line
        heading  == headingRe(combined)
        tagsString == IF Truthy(heading[2]) THEN heading[2] ELSE "unit"
        depth    == IF Truthy(tagsString) THEN Len(split(tagsString, ":")) ELSE 1
        headingTags == IF Truthy(tagsString)
                       THEN TrimAll(split(tagsString, ","))
                       ELSE <<>>
    IN  IF heading[1]
        THEN [lastline |-> line,
              foundFunction |-> TRUE,
              events |-> Append(st.events,
                                [kind  |-> "heading",
                                 range |-> Range(lineNo, 0, lineNo, Len(line)),
                                 name  |-> heading[3],
                                 depth |-> depth,
                                 tags  |-> headingTags])]
        ELSE [st EXCEPT !.lastline = line]

RECURSIVE ParseFrom(_, _, _)
ParseFrom(st, lines, lineNo) ==
    IF lineNo >= Len(lines) THEN st
    ELSE ParseFrom(ParseLine(st, lines, lineNo), lines, lineNo + 1)

\* parseMarkdown(text, events): [found |-> the value returned, events |-> the
\* onHeading calls made, in order]
parseMarkdown(text) ==
    LET st == ParseFrom([lastline |-> "", foundFunction |-> FALSE, events |-> <<>>],
                        split(text, "\n"), 0)
    IN  [found |-> st.foundFunction, events |-> st.events]

(***************************************************************************)
(* The texts the scanner is run on                                         *)
(***************************************************************************)

MaxLines == 3

SourceLines ==
    {"", "// #tags: fast", "// #tags:", "// #tags:   ", "// #tags: a:b, c",
     "Function test_a($t)", "Function setup()", "  $t.assert.isTrue($t; $r; \"ok\")"}

SourceTexts ==
    {join(ls, "\n") : ls \in UNION {[1..n -> SourceLines] : n \in 1..MaxLines}}

ScanIdle == [pc |-> "idle"]

ScanInit ==
    \E t \in SourceTexts :
        scan = [pc |-> "call", text |-> t, lines |-> <<>>, lineNo |-> 0,
                lastline |-> "", foundFunction |-> FALSE, events |-> <<>>,
                result |-> FALSE]

\* const lines = text.split('\n'); let lastline = ''; let foundFunction = false
ScanSplit ==
    /\ scan.pc = "call"
    /\ scan' = [scan EXCEPT !.pc = "loop", !.lines = split(scan.text, "\n"),
                            !.lineNo = 0, !.lastline = "",
                            !.foundFunction = FALSE, !.events = <<>>]
    /\ UNCHANGED <<mapper, sysVars>>

\* one iteration of for (let lineNo = 0; lineNo < lines.length; lineNo++)
ScanLine ==
    /\ scan.pc = "loop"
    /\ scan.lineNo < Len(scan.lines)
    /\ LET st == ParseLine([lastline |-> scan.lastline,
                            foundFunction |-> scan.foundFunction,
                            events |-> scan.events], scan.lines, scan.lineNo)
       IN  scan' = [scan EXCEPT !.lastline = st.lastline,
                                !.foundFunction = st.foundFunction,
                                !.events = st.events,
                                !.lineNo = scan.lineNo + 1]
    /\ UNCHANGED <<mapper, sysVars>>

\* return foundFunction
ScanReturn ==
    /\ scan.pc = "loop"
    /\ scan.lineNo >= Len(scan.lines)
    /\ scan' = [scan EXCEPT !.pc = "done", !.result = scan.foundFunction]
    /\ UNCHANGED <<mapper, sysVars>>

(***************************************************************************)
(* parser.ts: mapFunctionLineToSourceLine                                  *)
(***************************************************************************)

\* the value null returned by mapFunctionLineToSourceLine
NotFound == -1

\* const methodName = functionName.split('.').pop() || functionName
methodName(functionName) ==
    LET parts == split(functionName, ".")
        last  == parts[Len(parts)]
    IN  IF Truthy(last) THEN last ELSE functionName

\* the number of whitespace characters s starts with
LeadingSpace(s) == Len(s) - Len(trimStart(s))

\* lines[i].trim().match(new RegExp(`^Function\\s+${escaped methodName}\\s*\\(`)):
\* "Function", one or more whitespace characters, the name taken literally, any
\* whitespace, "("
matchesFunction(line, name) ==
    LET t    == trim(line)
        rest == From(t, Len("Function") + 1)
    IN  /\ startsWith(t, "Function")
        /\ \E k \in 1..LeadingSpace(rest) :
               LET r2 == From(rest, k + 1)
               IN  /\ startsWith(r2, name)
                   /\ startsWith(trimStart(From(r2, Len(name) + 1)), "(")

\* the loop of lines 73-80: the 0-based index of the first line that declares
\* the function, -1 when there is none
functionStartLine(lines, name) ==
    LET hits == {i \in 0..(Len(lines) - 1) : matchesFunction(lines[i + 1], name)}
    IN  IF hits = {} THEN -1 ELSE Min(hits)

hasContinuationNoTrim(currentLine) == endsWith(currentLine, "\\")

\* const trimmedLine = currentLine.trimEnd();
\* const hasContinuation = trimmedLine.endsWith('\\')
hasContinuation(currentLine) == endsWith(trimEnd(currentLine), "\\")

\* One iteration of while (lineIndex < lines.length), from the locals
\* [lineIndex, logicalLinesCompleted, result]; result is set by the return.
WalkLine(w, lines, lineOffset) ==
    LET completes == ~hasContinuation(lines[w.lineIndex + 1])
        completed == IF completes THEN w.logicalLinesCompleted + 1
                     ELSE w.logicalLinesCompleted
    IN  IF completes /\ completed = lineOffset
        THEN [w EXCEPT !.logicalLinesCompleted = completed, !.result = w.lineIndex,
                       !.returned = TRUE]
        ELSE [w EXCEPT !.logicalLinesCompleted = completed,
                       !.lineIndex = w.lineIndex + 1]

RECURSIVE WalkFrom(_, _, _)
WalkFrom(w, lines, lineOffset) ==
    IF w.returned THEN w.result
    ELSE IF w.lineIndex >= Len(lines) THEN NotFound
    ELSE CHOOSE r \in {WalkFrom(next, lines, lineOffset) :
                           next \in {WalkLine(w, lines, lineOffset)}} : TRUE

\* the locals at line 90, before the while loop
WalkStart(start) ==
    [lineIndex |-> start + 1, logicalLinesCompleted |-> 0, result |-> NotFound,
     returned |-> FALSE]

\* mapFunctionLineToSourceLine on the text the file read returned
mapFunctionLineToSourceLine(content, functionName, lineOffset) ==
    CHOOSE r \in
        {LET start == functionStartLine(lines, methodName(functionName))
         IN  IF start = -1 THEN NotFound
             ELSE WalkFrom(WalkStart(start), lines, lineOffset) :
         lines \in {split(content, "\n")}} : TRUE

(***************************************************************************)
(* The calls of the mapper that are checked                                *)
(***************************************************************************)

MaxMapLines == 4
MaxOffset == 3

MapperLines == {"Function test_a($t)", "  $x:=1", "  $y:=f(1; \\ ", ""}

MapperTexts ==
    {join(ls, "\n") : ls \in UNION {[1..n -> MapperLines] : n \in 1..MaxMapLines}}

FunctionNames == {"UserServiceTest.test_a", "test_"}

MapIdle == [pc |-> "idle"]

MapInit ==
    \E c \in MapperTexts, f \in FunctionNames, k \in 0..MaxOffset :
        mapper = [pc |-> "call", content |-> c, functionName |-> f,
                  lineOffset |-> k, lines |-> <<>>, start |-> -1,
                  walk |-> WalkStart(-1), result |-> NotFound]

\* lines 66-84: split the content, find the declaration, return null without it
MapFind ==
    /\ mapper.pc = "call"
    /\ LET lines == split(mapper.content, "\n")
           start == functionStartLine(lines, methodName(mapper.functionName))
       IN  mapper' = [mapper EXCEPT !.lines = lines, !.start = start,
                                    !.walk = WalkStart(start),
                                    !.pc = IF start = -1 THEN "done" ELSE "walk",
                                    !.result = NotFound]
    /\ UNCHANGED <<scan, sysVars>>

\* one iteration of the while loop of lines 92-111
MapWalk ==
    /\ mapper.pc = "walk"
    /\ mapper.walk.lineIndex < Len(mapper.lines)
    /\ LET w == WalkLine(mapper.walk, mapper.lines, mapper.lineOffset)
       IN  mapper' = [mapper EXCEPT !.walk = w,
                                    !.pc = IF w.returned THEN "done" ELSE "walk",
                                    !.result = w.result]
    /\ UNCHANGED <<scan, sysVars>>

\* line 114: the loop ended without reaching the line
MapMiss ==
    /\ mapper.pc = "walk"
    /\ mapper.walk.lineIndex >= Len(mapper.lines)
    /\ mapper' = [mapper EXCEPT !.pc = "done", !.result = NotFound]
    /\ UNCHANGED <<scan, sysVars>>

(***************************************************************************)
(* The entity tree: vscode.TestItem objects and controller.items           *)
(***************************************************************************)

\* the one test file of the workspace: file.fsPath, and fileItem.uri as text
FsPath == "/proj/UserServiceTest.4dm"
UriString == "file://" \o FsPath

\* an item without a range
NoRange == Range(-1, -1, -1, -1)

\* controller.createTestItem(id, label, uri)
\* the item has no generation in testData
NoGeneration == 0

createTestItem(id, label) ==
    [id |-> id, label |-> label, parent |-> 0, children |-> <<>>,
     tags |-> <<>>, range |-> NoRange, generation |-> NoGeneration]

Elements(xs) == {xs[i] : i \in 1..Len(xs)}

\* item.children.replace(kids) on the item p: the items that leave lose their
\* parent, the items of kids get p as parent
replaceChildren(heap, p, kids) ==
    [i \in 1..Len(heap) |->
        IF i = p THEN [heap[i] EXCEPT !.children = kids]
        ELSE IF i \in Elements(kids) THEN [heap[i] EXCEPT !.parent = p]
        ELSE IF heap[i].parent = p THEN [heap[i] EXCEPT !.parent = 0]
        ELSE heap[i]]

\* controller.items.add(item): an item with the same id is replaced in place
addRoot(heap, rs, n) ==
    IF \E k \in 1..Len(rs) : heap[rs[k]].id = heap[n].id
    THEN [k \in 1..Len(rs) |-> IF heap[rs[k]].id = heap[n].id THEN n ELSE rs[k]]
    ELSE Append(rs, n)

\* controller.items.delete(id) without effect
keepRoot(heap, rs, id) == rs

\* controller.items.delete(id)
RECURSIVE deleteRoot(_, _, _)
deleteRoot(heap, rs, id) ==
    IF rs = <<>> THEN <<>>
    ELSE (IF heap[rs[1]].id = id THEN <<>> ELSE <<rs[1]>>)
         \o deleteRoot(heap, Tail(rs), id)

\* the items of the tree: what is reached from controller.items by children
RECURSIVE Descendants(_, _)
Descendants(heap, i) ==
    {i} \cup UNION {Descendants(heap, c) : c \in Elements(heap[i].children)}

InTree(heap, rs) == UNION {Descendants(heap, r) : r \in Elements(rs)}

(***************************************************************************)
(* extension.ts (part_002): tags and run profiles                          *)
(***************************************************************************)

UpperCase == "ABCDEFGHIJKLMNOPQRSTUVWXYZ"
LowerCase == "abcdefghijklmnopqrstuvwxyz"

RECURSIVE toLowerCase(_)
toLowerCase(s) ==
    IF s = "" THEN ""
    ELSE LET c == CharAt(s, 1)
             u == indexOf(UpperCase, c)
         IN  (IF u = 0 THEN c ELSE CharAt(LowerCase, u)) \o toLowerCase(From(s, 2))

\* emojiMap, in its order; each emoji is written as a name in parentheses
emojiMap ==
    <<[key |-> "fast", emoji |-> "(zap)"],
      [key |-> "slow", emoji |-> "(turtle)"],
      [key |-> "unit", emoji |-> "(test-tube)"],
      [key |-> "integration", emoji |-> "(puzzle)"],
      [key |-> "table", emoji |-> "(cabinet)"]>>

\* the emojis of the entries of map whose key occurs in lower, in order
RECURSIVE emojisFor(_, _)
emojisFor(lower, map) ==
    IF map = <<>> THEN <<>>
    ELSE (IF includes(lower, map[1].key) THEN <<map[1].emoji>> ELSE <<>>)
         \o emojisFor(lower, Tail(map))

getEmojiForTag(tagName) ==
    LET emojis == emojisFor(toLowerCase(tagName), emojiMap)
    IN  join(emojis, " ") \o (IF Len(emojis) > 0 THEN " " ELSE "(diamond) ")

\* const profileName = `${emojiPrefix}Run ${name} tests`
profileName(name) == getEmojiForTag(name) \o "Run " \o name \o " tests"

\* the labels of the two default profiles (the emoji written as a name)
RunAllLabel == "(play) Run All Tests"
DebugAllLabel == "(bug) Debug All Tests"

\* getOrCreateTag(name) for each name of a tag list, in order: the registry after
RECURSIVE getOrCreateTags(_, _)
getOrCreateTags(registry, names) ==
    IF names = <<>> THEN registry
    ELSE getOrCreateTags(IF names[1] \in Elements(registry) THEN registry
                         ELSE Append(registry, names[1]),
                         Tail(names))

(***************************************************************************)
(* testTree.ts (parser.test.ts, lines 265-368): updateFromDisk             *)
(***************************************************************************)

\* two items of kids have the same id
HasDuplicateIds(heap, kids) ==
    \E p, q \in 1..Len(kids) : p < q /\ heap[kids[p]].id = heap[kids[q]].id

\* A collection of test items is keyed by id (items.add, items.delete(id)).
\* What children.replace does with a list that holds an id twice is not in
\* the source: it rejects the list with an exception, or the last item of
\* the id stays.
DuplicateOutcomes == {"throws", "last"}

\* the last item of each id, in the order of kids
RECURSIVE lastOfEachId(_, _)
lastOfEachId(heap, kids) ==
    IF kids = <<>> THEN <<>>
    ELSE (IF \E q \in 2..Len(kids) : heap[kids[q]].id = heap[kids[1]].id
          THEN <<>> ELSE <<kids[1]>>)
         \o lastOfEachId(heap, Tail(kids))

\* every item of the list becomes a child, also two with the same id
installAll(b, finished) ==
    [b EXCEPT !.heap = replaceChildren(b.heap, finished.item, finished.children)]

\* line 307: finished.item.children.replace(finished.children)
installChildren(b, finished) ==
    IF ~HasDuplicateIds(b.heap, finished.children)
    THEN [b EXCEPT !.heap = replaceChildren(b.heap, finished.item, finished.children)]
    ELSE IF b.duplicates = "throws"
    THEN [b EXCEPT !.threw = TRUE]
    ELSE [b EXCEPT !.heap = replaceChildren(b.heap, finished.item,
                                            lastOfEachId(b.heap, finished.children))]

\* ascend(depth): finished entries are popped and their children replaced;
\* an exception of replace leaves the loop
RECURSIVE ascend(_, _)
ascend(b, depth) ==
    IF ~b.threw /\ Len(b.ancestors) > depth
    THEN ascend(installChildren(
                    [b EXCEPT !.ancestors = SubSeq(b.ancestors, 1, Len(b.ancestors) - 1)],
                    b.ancestors[Len(b.ancestors)]),
                depth)
    ELSE b

\* the onHeading callback of updateFromDisk for the event e, after ascend(depth)
\* an exception thrown by ascend leaves the callback
createHeading(a, e) ==
    LET top    == Len(a.ancestors)
        n      == Len(a.heap) + 1
        thead  == [createTestItem(UriString \o "/" \o e.name, e.name)
                      EXCEPT !.range = e.range, !.tags = e.tags,
                             !.generation = a.thisGeneration]
    IN  IF a.threw THEN a
        ELSE [heap        |-> Append(a.heap, thead),
              ancestors   |-> Append([a.ancestors EXCEPT ![top].children = Append(@, n)],
                                     [item |-> n, children |-> <<>>]),
              registry    |-> getOrCreateTags(a.registry, e.tags),
              hasFunction |-> a.hasFunction \/ startsWith(e.name, "test_"),
              thisGeneration |-> a.thisGeneration,
              duplicates  |-> a.duplicates,
              threw       |-> FALSE]

\* the onHeading callback of updateFromDisk for the event e
onHeading(b, e) == createHeading(ascend(b, e.depth), e)

\* the onTest callback of updateFromDisk, lines 335-356: the test case is
\* added to the open heading; without an open test function it is dropped
addTestCase(b, e, top) ==
    [b EXCEPT
        !.heap = Append(@, [createTestItem(UriString \o "/" \o e.should, e.should)
                               EXCEPT !.range = e.range,
                                      !.generation = b.thisGeneration,
                                      !.tags = b.heap[b.ancestors[top].item].tags]),
        !.ancestors = [@ EXCEPT ![top].children = Append(@, Len(b.heap) + 1)]]

onTest(b, e) ==
    IF ~startsWith(b.heap[b.ancestors[Len(b.ancestors)].item].label, "test_")
    THEN b
    ELSE addTestCase(b, e, Len(b.ancestors))

\* the calls parseMarkdown has made on the events object, in order, up to an
\* exception
RECURSIVE onHeadings(_, _)
onHeadings(b, events) ==
    IF events = <<>> \/ b.threw THEN b
    ELSE onHeadings(IF events[1].kind = "heading" THEN onHeading(b, events[1])
                    ELSE onTest(b, events[1]),
                    Tail(events))

\* lines 360-364: the file is deleted by id when no test function was found,
\* then ascend(0); after an exception in a callback the catch of line 365 is
\* all that runs
finishUpdate(b, rs, fileItem) ==
    [heap     |-> ascend(b, 0).heap,
     roots    |-> IF ~b.threw /\ ~b.hasFunction
                  THEN deleteRoot(b.heap, rs, b.heap[fileItem].id)
                  ELSE rs,
     registry |-> b.registry]

\* updateFromDisk(controller, fileItem, getOrCreateTag) once the file read has
\* returned content, with thisGeneration the value of Date.now() and
\* duplicates the outcome of a replace with a repeated id: [heap, roots,
\* registry] after it
updateFromDisk(heap, rs, registry, fileItem, content, thisGeneration, duplicates) ==
    finishUpdate(onHeadings([heap |-> heap,
                             ancestors |-> <<[item |-> fileItem, children |-> <<>>]>>,
                             registry |-> registry, hasFunction |-> FALSE,
                             thisGeneration |-> thisGeneration,
                             duplicates |-> duplicates, threw |-> FALSE],
                            parseMarkdown(content).events),
                 rs, fileItem)

(***************************************************************************)
(* extension.ts (part_002) and startTestRun.ts: run requests               *)
(***************************************************************************)

\* one call made on the vscode.TestRun: started, passed, failed (with the
\* message text), appendOutput (kind "output"), end; and one
\* item.children.replace(kids) made by handleResults (kind "replace")
Report(kind, item, text, kids) ==
    [kind |-> kind, item |-> item, text |-> text, kids |-> kids]

appendOutput(text) == Report("output", 0, text, <<>>)

RunIdle ==
    [pc |-> "idle", include |-> <<>>, all |-> FALSE, label |-> "",
     cancelled |-> FALSE, targets |-> <<>>, cmdArgs |-> <<>>, spawns |-> 0,
     chunks |-> <<>>, stderr |-> <<>>, output |-> "", written |-> "", results |-> <<>>,
     idx |-> 0, aidx |-> 0, kids |-> <<>>, log |-> <<>>]

\* request.profile?.label?.match(/Run '(.+)' tests/)[1], None when there is no
\* match.  The match starts at the first "Run '" (a later start has a shorter
\* text after it), and the greedy (.+) runs to the last "' tests" after it.
afterRunQuote(label) == From(label, indexOf(label, "Run '") + Len("Run '"))

profileTagOf(rest) ==
    IF lastIndexOf(rest, "' tests") > 1 /\ AllDots(SubSeq(rest, 1, lastIndexOf(rest, "' tests") - 1))
    THEN SubSeq(rest, 1, lastIndexOf(rest, "' tests") - 1)
    ELSE None

profileTag(label) ==
    IF indexOf(label, "Run '") = 0 THEN None ELSE profileTagOf(afterRunQuote(label))

\* the walk of runTestsByTag: the items of the tree that carry the tag, in
\* the order of the walk
RECURSIVE walk(_, _, _)
walk(heap, queue, tagName) ==
    IF queue = <<>> THEN <<>>
    ELSE (IF tagName \in Elements(heap[queue[1]].tags) THEN <<queue[1]>> ELSE <<>>)
         \o walk(heap, heap[queue[1]].children \o Tail(queue), tagName)

\* lines 211-214: climb up until the parent is a direct child of the root
RECURSIVE climb(_, _)
climb(heap, current) ==
    IF heap[current].parent # 0 /\ heap[heap[current].parent].parent # 0
    THEN climb(heap, heap[current].parent)
    ELSE current

climbAll(heap, include) == [k \in 1..Len(include) |-> climb(heap, include[k])]

\* test.uri?.path.split('/').pop() with the .4dm suffix removed; every item of
\* the tree has the uri of the one test file
suiteOf(path) ==
    IF endsWith(split(path, "/")[Len(split(path, "/"))], ".4dm")
    THEN SubSeq(split(path, "/")[Len(split(path, "/"))], 1,
                Len(split(path, "/")[Len(split(path, "/"))]) - Len(".4dm"))
    ELSE split(path, "/")[Len(split(path, "/"))]

\* the loop of lines 227-245 without the test of the cancellation token
RECURSIVE collectAll(_, _, _, _)
collectAll(heap, queue, cancelled, targets) ==
    IF queue = <<>> THEN targets
    ELSE collectAll(heap,
                    SubSeq(queue, 1, Len(queue) - 1) \o heap[queue[Len(queue)]].children,
                    cancelled,
                    IF startsWith(heap[queue[Len(queue)]].label, "test_")
                    THEN Append(targets, [suite |-> suiteOf(FsPath),
                                          func  |-> heap[queue[Len(queue)]].label,
                                          item  |-> queue[Len(queue)]])
                    ELSE targets)

\* lines 227-245: the queue is emptied from its end; a test function is marked
\* started and becomes a target, the children of every item are queued
RECURSIVE collect(_, _, _, _)
collect(heap, queue, cancelled, targets) ==
    IF queue = <<>> \/ cancelled THEN targets
    ELSE collect(heap,
                 SubSeq(queue, 1, Len(queue) - 1) \o heap[queue[Len(queue)]].children,
                 cancelled,
                 IF startsWith(heap[queue[Len(queue)]].label, "test_")
                 THEN Append(targets, [suite |-> suiteOf(FsPath),
                                       func  |-> heap[queue[Len(queue)]].label,
                                       item  |-> queue[Len(queue)]])
                 ELSE targets)

\* every name kept, also one that was seen
allNames(names, seen) == seen \o names

\* Array.from(new Set(names)): the first occurrence of each name, in order
RECURSIVE unique(_, _)
unique(names, seen) ==
    IF names = <<>> THEN seen
    ELSE unique(Tail(names),
                IF names[1] \in Elements(seen) THEN seen ELSE Append(seen, names[1]))

uniqueTargets(targets) ==
    unique([k \in 1..Len(targets) |-> targets[k].suite \o "." \o targets[k].func], <<>>)

\* lines 253-262
cmdArgsOf(label, isRunningAllTests, targets) ==
    <<"test", "format=json">>
    \o (IF Truthy(profileTag(label)) THEN <<"tag=" \o profileTag(label)>>
        ELSE IF ~isRunningAllTests THEN <<"test=" \o join(uniqueTargets(targets), ",")>>
        ELSE <<>>)

\* no target is marked started
noStartedReports(targets) == <<>>

\* lines 227-245: run.started(item) for every target, in the order collected
startedReports(targets) ==
    [k \in 1..Len(targets) |-> Report("started", targets[k].item, "", <<>>)]

(***************************************************************************)
(* The subprocess: what `make test format=json` writes                     *)
(***************************************************************************)

NoisePrefixes ==
    {"/Applications/Xcode.app",
     "tool4d.APPL Cooperative process doesn't yield enough"}

\* The JSON text of one entry of testResults is written as one letter:
\*   A  test_a passed, one passed assertion with a line and a functionName
\*   B  test_a failed, a passed assertion without a line and a failed one with
\*      a message, a line and a functionName; assertionCount is 3
\*   C  test_b passed, no assertions field
\*   M  test_a failed, no assertions field
\*   U  test_a of the suite OtherTest, which is not in the workspace
\*   T  test_b failed, three assertions without a line: one without a message
\*      and two whose messages begin with the name of the function
\*   H  test_b passed, one passed assertion made in test_a, on its line 1
EntryLetters == {"A", "B", "C", "M", "U", "T", "H"}

Assertion(passed, message, line, functionName) ==
    [passed |-> passed, message |-> message, line |-> line,
     functionName |-> functionName, expected |-> "1", actual |-> "2"]

Entry(suite, name, passed, hasAssertions, assertions, assertionCount) ==
    [suite |-> suite, name |-> name, passed |-> passed,
     hasAssertions |-> hasAssertions, assertions |-> assertions,
     assertionCount |-> assertionCount]

EntryOf(letter) ==
    CASE letter = "A" ->
           Entry("UserServiceTest", "test_a", TRUE, TRUE,
                 <<Assertion(TRUE, None, 1, "UserServiceTest.test_a")>>, 1)
      [] letter = "B" ->
           Entry("UserServiceTest", "test_a", FALSE, TRUE,
                 <<Assertion(TRUE, None, 0, None),
                   Assertion(FALSE, "should be equal", 2, "UserServiceTest.test_a")>>, 3)
      [] letter = "C" ->
           Entry("UserServiceTest", "test_b", TRUE, FALSE, <<>>, 0)
      [] letter = "M" ->
           Entry("UserServiceTest", "test_a", FALSE, FALSE, <<>>, 1)
      [] letter = "U" ->
           Entry("OtherTest", "test_a", TRUE, TRUE, <<>>, 0)
      [] letter = "T" ->
           Entry("UserServiceTest", "test_b", FALSE, TRUE,
                 <<Assertion(TRUE, None, 0, None),
                   Assertion(TRUE, "test_b", 0, None),
                   Assertion(FALSE, "test_b returns 1", 0, None)>>, 3)
      [] letter = "H" ->
           Entry("UserServiceTest", "test_b", TRUE, TRUE,
                 <<Assertion(TRUE, "helper checks", 1, "UserServiceTest.test_a")>>, 1)

\* The JSON text of one entry of the failures array is written as one letter:
\*   f  the failure of test_a of UserServiceTest, with the reason "timeout"
FailureLetters == {"f"}

FailureOf(letter) ==
    [suite |-> "UserServiceTest", test |-> "test_a", reason |-> "timeout"]

\* what the subprocess writes to stdout, as the sequence of its data chunks
Outputs ==
    {<<>>,
     <<"make: Nothing to be done\n">>,
     <<"}{\n">>,
     <<"{x}\n">>,
     <<"{A}\n">>,
     <<"{", "B}\n">>,
     <<"{M}\n">>,
     <<"{Bf}\n">>,
     <<"{AB}\n">>,
     <<"{UA}\n">>,
     <<"{MUA}\n">>,
     <<"/Applications/Xcode.app/usr/bin/make: warning\n{AC}\n">>}

\* what the subprocess writes to stderr
ErrOutputs == {<<>>, <<"make: warning\n">>}

\* the stdout 'data' handler, lines 271-282, for the lines of one chunk
RECURSIVE keepLines(_, _)
keepLines(output, lines) ==
    IF lines = <<>> THEN output
    ELSE keepLines(IF \E p \in NoisePrefixes : startsWith(lines[1], p)
                   THEN output
                   ELSE output \o lines[1] \o "\n",
                   Tail(lines))

onStdoutData(output, data) == keepLines(output, split(data, "\n"))

\* the text without the white space JSON allows between tokens
RECURSIVE stripWhiteSpace(_)
stripWhiteSpace(s) ==
    IF s = "" THEN ""
    ELSE (IF CharAt(s, 1) \in WhiteSpace THEN "" ELSE CharAt(s, 1))
         \o stripWhiteSpace(From(s, 2))

\* JSON.parse accepts the text: an object whose testResults are entry letters
\* and whose failures are failure letters
validJSON(t) ==
    /\ Len(t) >= 2
    /\ CharAt(t, 1) = "{"
    /\ CharAt(t, Len(t)) = "}"
    /\ \A i \in 2..(Len(t) - 1) : CharAt(t, i) \in EntryLetters \cup FailureLetters

\* the entries the entry letters of the text stand for, in order
RECURSIVE entriesOf(_)
entriesOf(s) ==
    IF s = "" THEN <<>>
    ELSE (IF CharAt(s, 1) \in EntryLetters THEN <<EntryOf(CharAt(s, 1))>> ELSE <<>>)
         \o entriesOf(From(s, 2))

\* results.testResults of the parsed text
testResultsOf(t) == entriesOf(t)

\* the failures the failure letters of the text stand for, in order
RECURSIVE failureEntriesOf(_)
failureEntriesOf(s) ==
    IF s = "" THEN <<>>
    ELSE (IF CharAt(s, 1) \in FailureLetters THEN <<FailureOf(CharAt(s, 1))>> ELSE <<>>)
         \o failureEntriesOf(From(s, 2))

\* results.failures of the parsed text
failuresOf(t) == failureEntriesOf(t)

\* output.substring(firstBrace, lastBrace + 1), lines 291-301; None when the
\* braces are missing or out of order
jsonStrOf(output) ==
    IF indexOf(output, "{") = 0 \/ lastIndexOf(output, "}") = 0
       \/ indexOf(output, "{") > lastIndexOf(output, "}")
    THEN None
    ELSE SubSeq(output, indexOf(output, "{"), lastIndexOf(output, "}"))

(***************************************************************************)
(* startTestRun.ts: handleResults                                          *)
(***************************************************************************)

\* testTargets.find(t => t.suite === testResult.suite && t.func === testResult.name):
\* the position of the first such target, 0 when there is none
findTarget(targets, testResult) ==
    IF \E k \in 1..Len(targets) :
           targets[k].suite = testResult.suite /\ targets[k].func = testResult.name
    THEN Min({k \in 1..Len(targets) :
                 targets[k].suite = testResult.suite /\ targets[k].func = testResult.name})
    ELSE 0

\* lines 357-362: the label of the assertion item at the 0-based index
assertionLabel(assertion, index) ==
    IF ~Truthy(assertion.message) THEN "Assertion " \o ToString(index + 1)
    ELSE IF Len(assertion.message) > 80 THEN SubSeq(assertion.message, 1, 77) \o "..."
    ELSE assertion.message

\* lines 393-406: the message of a failed assertion
failureMessage(assertion) ==
    join(<<"Expected: " \o assertion.expected \o ", Actual: " \o assertion.actual>>
         \o (IF Truthy(assertion.message)
             THEN <<"\nAssertion: " \o assertion.message>> ELSE <<>>),
         "\n")

\* line 369: the assertion's line is mapped (which awaits a read of the file)
needsMap(assertion) == assertion.line # 0 /\ Truthy(assertion.functionName)

\* the assertion item reported passed or failed without run.started(assertionItem)
reportUnstarted(c, funcItem, assertion, sourceLine) ==
    [c EXCEPT
        !.heap = Append(@, [createTestItem(c.heap[funcItem].id \o "/assertion-"
                                              \o ToString(c.aidx - 1),
                                           assertionLabel(assertion, c.aidx - 1))
                              EXCEPT !.range = IF sourceLine = NotFound THEN NoRange
                                               ELSE Range(sourceLine, 0, sourceLine, 0)]),
        !.kids = Append(@, Len(c.heap) + 1),
        !.log  = @ \o <<IF assertion.passed
                        THEN Report("passed", Len(c.heap) + 1, "", <<>>)
                        ELSE Report("failed", Len(c.heap) + 1,
                                    failureMessage(assertion), <<>>)>>,
        !.aidx = @ + 1]

\* lines 365-412 for the assertion at c.aidx of the matched entry: the item is
\* created (with a range when sourceLine is a line), pushed, started, and
\* reported passed or failed
reportAssertion(c, funcItem, assertion, sourceLine) ==
    [c EXCEPT
        !.heap = Append(@, [createTestItem(c.heap[funcItem].id \o "/assertion-"
                                              \o ToString(c.aidx - 1),
                                           assertionLabel(assertion, c.aidx - 1))
                              EXCEPT !.range = IF sourceLine = NotFound THEN NoRange
                                               ELSE Range(sourceLine, 0, sourceLine, 0)]),
        !.kids = Append(@, Len(c.heap) + 1),
        !.log  = @ \o <<Report("started", Len(c.heap) + 1, "", <<>>),
                        IF assertion.passed
                        THEN Report("passed", Len(c.heap) + 1, "", <<>>)
                        ELSE Report("failed", Len(c.heap) + 1,
                                    failureMessage(assertion), <<>>)>>,
        !.aidx = @ + 1]

\* testResult.assertions.filter(a => !a.passed).length
failedCount(assertions) == Cardinality({k \in 1..Len(assertions) : ~assertions[k].passed})

\* line 427
summaryMessage(testResult) ==
    ToString(failedCount(testResult.assertions)) \o " of "
    \o ToString(testResult.assertionCount) \o " assertions failed"

\* the assertion items pushed onto the children the function already has
appendAssertions(c, funcItem) ==
    [c EXCEPT !.heap = replaceChildren(@, funcItem, c.heap[funcItem].children \o c.kids),
              !.log  = Append(@, Report("replace", funcItem, "", c.kids))]

\* line 419: funcItem.children.replace(assertionItems)
replaceAssertions(c, funcItem) ==
    [c EXCEPT !.heap = replaceChildren(@, funcItem, c.kids),
              !.log  = Append(@, Report("replace", funcItem, "", c.kids))]

\* lines 421-430 after the replacement: the report for the function.  With no
\* assertions field and passed false, line 426 throws a TypeError
reportFunction(c, funcItem, testResult) ==
    IF testResult.passed
    THEN [c EXCEPT !.log = Append(@, Report("passed", funcItem, "", <<>>)),
                   !.idx = @ + 1, !.aidx = 1, !.kids = <<>>]
    ELSE IF ~testResult.hasAssertions
    THEN [c EXCEPT !.status = "threw"]
    ELSE [c EXCEPT !.log = Append(@, Report("failed", funcItem,
                                            summaryMessage(testResult), <<>>)),
                   !.idx = @ + 1, !.aidx = 1, !.kids = <<>>]

warning(testResult) ==
    appendOutput("Warning: Could not find TestItem for " \o testResult.suite
                 \o "." \o testResult.name \o "\n")

\* handleResults from the entry c.idx and the assertion c.aidx on, up to the
\* next await (status "await"), the exception (status "threw") or its return
\* (status "done")
RECURSIVE handleResults(_, _, _)
RECURSIVE nextEntry(_, _, _)
handleResults(c, results, targets) ==
    IF c.idx > Len(results) THEN [c EXCEPT !.status = "done"]
    ELSE IF findTarget(targets, results[c.idx]) = 0
    THEN CHOOSE r \in
             {handleResults(skipped, results, targets) :
              skipped \in {[c EXCEPT !.log = Append(@, warning(results[c.idx])),
                                     !.idx = @ + 1, !.aidx = 1, !.kids = <<>>]}} : TRUE
    ELSE IF results[c.idx].hasAssertions /\ c.aidx <= Len(results[c.idx].assertions)
    THEN IF needsMap(results[c.idx].assertions[c.aidx])
         THEN [c EXCEPT !.status = "await"]
         ELSE CHOOSE r \in
                  {handleResults(reported, results, targets) :
                   reported \in {reportAssertion(
                                     c, targets[findTarget(targets, results[c.idx])].item,
                                     results[c.idx].assertions[c.aidx], NotFound)}} : TRUE
    ELSE CHOOSE r \in
             {nextEntry(finished, results, targets) :
              finished \in {reportFunction(
                                replaceAssertions(
                                    c, targets[findTarget(targets, results[c.idx])].item),
                                targets[findTarget(targets, results[c.idx])].item,
                                results[c.idx])}} : TRUE

\* the loop of handleResults goes on unless the entry has thrown
nextEntry(c, results, targets) ==
    IF c.status = "threw" THEN c ELSE handleResults(c, results, targets)

MaxPasses == 2

\* what a read of the test file can return
FileContents ==
    {"// #tags: fast\nFunction setup()\n  $x:=1",
     "// #tags: unit\nFunction test_a($t)\n// #tags: fast\nFunction test_b($t)\n"}

SysInit ==
    /\ items = <<>>
    /\ roots = <<>>
    /\ passes = <<>>
    /\ tagRegistry = <<>>
    /\ run = RunIdle

\* discoverTests for the test file, lines 173-183, up to the await of the file
\* read in updateFromDisk
StartPass ==
    /\ Len(passes) < MaxPasses
    /\ LET n    == Len(items) + 1
           heap == Append(items, createTestItem(FsPath, split(FsPath, "/")[Len(split(FsPath, "/"))]))
       IN  /\ items' = heap
           /\ roots' = addRoot(heap, roots, n)
           /\ passes' = Append(passes, [item |-> n, content |-> None])
    /\ UNCHANGED <<tagRegistry, run, scan, mapper>>

\* the greatest generation given so far
LastGeneration(heap) == Max({heap[i].generation : i \in 1..Len(heap)} \cup {NoGeneration})

\* Date.now() in a pass: the milliseconds of the clock, which has moved by
\* one of ticks since the last pass took its generation
Clock(heap, ticks) == {LastGeneration(heap) + t : t \in ticks} \ {NoGeneration}

\* the file read of a pending pass returns one of the texts: the rest of
\* updateFromDisk
ReadsFile(texts, ticks, outcomes) ==
    \E k \in 1..Len(passes), content \in texts :
        /\ passes[k].content = None
        /\ \E now \in Clock(items, ticks), duplicates \in outcomes :
           \E u \in {updateFromDisk(items, roots, tagRegistry, passes[k].item, content,
                                     now, duplicates)} :
               /\ items' = u.heap
               /\ roots' = u.roots
               /\ tagRegistry' = u.registry
        /\ passes' = [passes EXCEPT ![k].content = content]
        /\ UNCHANGED <<run, scan, mapper>>

\* a pass of the system: its clock has moved since the pass before, and no
\* text of FileContents declares a function twice
FinishPass == ReadsFile(FileContents, {1}, {"throws"})

\* the texts a single pass is run on: those of the scanner, and two files with
\* several functions (tag payloads with ':', a function declared twice, equal
\* assertion messages)
BuilderTexts ==
    SourceTexts \cup FileContents \cup
    {"// #tags: unit\nFunction test_a($t)\n// #tags: a:b, c\nFunction test_b($t)",
     "// #tags: unit\nFunction test_a($t)\nFunction test_a($t)",
     "// #tags: unit\nFunction test_a($t)\n// #tags: fast\nFunction test_b($t)\n"
        \o "// #tags: unit\nFunction test_a($t)",
     "// #tags: unit\nFunction test_a($t)\n  $t.assert.isTrue($t; $r; \"ok\")\n"
        \o "// #tags: fast\nFunction test_b($t)\n  $t.assert.isTrue($t; $r; \"ok\")\n"
        \o "  $t.assert.isTrue($t; $s; \"ok\")"}

\* updateFromDisk of the first pass on one of the builder's texts
BuildPass == Len(passes) = 1 /\ ReadsFile(BuilderTexts, {1}, DuplicateOutcomes)

\* discoverTests for the first time
FirstPass == passes = <<>> /\ StartPass

(***************************************************************************)
(* startTestRun.ts: startTestRun                                           *)
(***************************************************************************)

\* lines 203-268 once the targets are collected: with no target the run ends;
\* otherwise the targets were marked started and the subprocess is spawned,
\* which will write out and err
spawnOrEnd(include, isRunningAllTests, label, cancelled, targets, out, err) ==
    IF targets = <<>>
    THEN [RunIdle EXCEPT !.pc = "ended", !.include = include,
                         !.all = isRunningAllTests, !.label = label,
                         !.cancelled = cancelled,
                         !.log = <<Report("end", 0, "", <<>>)>>]
    ELSE [RunIdle EXCEPT !.pc = "running", !.include = include,
                         !.all = isRunningAllTests, !.label = label,
                         !.cancelled = cancelled, !.targets = targets,
                         !.cmdArgs = cmdArgsOf(label, isRunningAllTests, targets),
                         !.spawns = 1, !.chunks = out, !.stderr = err,
                         !.log = startedReports(targets)
                                 \o <<appendOutput("Spawning: make "
                                        \o join(cmdArgsOf(label, isRunningAllTests, targets), " ")
                                        \o "\n")>>]

\* startTestRun(controller, request, token) up to the await of the subprocess
startTestRun(heap, rs, include, isRunningAllTests, label, cancelled, out, err) ==
    spawnOrEnd(include, isRunningAllTests, label, cancelled,
               collect(heap, IF isRunningAllTests THEN rs ELSE climbAll(heap, include),
                       cancelled, <<>>),
               out, err)

\* runTests from the default profile with no selection (request.include is
\* undefined); it returns when the controller has no items
RunAllTests ==
    /\ run.pc = "idle"
    /\ roots # <<>>
    /\ \E cancelled \in BOOLEAN, out \in Outputs, err \in ErrOutputs :
           run' = startTestRun(items, roots, <<>>, TRUE, RunAllLabel, cancelled, out, err)
    /\ UNCHANGED <<items, roots, passes, tagRegistry, scan, mapper>>

\* runTests from the default profile with one item of the tree selected
RunSelectedTests ==
    /\ run.pc = "idle"
    /\ \E i \in InTree(items, roots), cancelled \in BOOLEAN,
          out \in Outputs, err \in ErrOutputs :
           run' = startTestRun(items, roots, <<i>>, FALSE, RunAllLabel, cancelled, out, err)
    /\ UNCHANGED <<items, roots, passes, tagRegistry, scan, mapper>>

\* runTestsByTag from the profile getOrCreateTag created for a tag; it returns
\* when no item of the tree carries the tag
RunTestsByTag ==
    /\ run.pc = "idle"
    /\ \E k \in 1..Len(tagRegistry) :
           /\ walk(items, roots, tagRegistry[k]) # <<>>
           /\ \E cancelled \in BOOLEAN, out \in Outputs, err \in ErrOutputs :
                  run' = startTestRun(items, roots, walk(items, roots, tagRegistry[k]),
                                      FALSE, profileName(tagRegistry[k]), cancelled,
                                      out, err)
    /\ UNCHANGED <<items, roots, passes, tagRegistry, scan, mapper>>

\* makeProcess.stdout 'data'
OnStdoutData ==
    /\ run.pc = "running"
    /\ run.chunks # <<>>
    /\ run' = [run EXCEPT !.output = onStdoutData(@, Head(run.chunks)),
                          !.written = @ \o Head(run.chunks),
                          !.chunks = Tail(@)]
    /\ UNCHANGED <<items, roots, passes, tagRegistry, scan, mapper>>

\* makeProcess.stderr 'data'
OnStderrData ==
    /\ run.pc = "running"
    /\ run.stderr # <<>>
    /\ run' = [run EXCEPT !.log = Append(@, appendOutput(Head(run.stderr))),
                          !.stderr = Tail(@)]
    /\ UNCHANGED <<items, roots, passes, tagRegistry, scan, mapper>>

\* the messages of the exceptions the close handler catches
JSONParseError == "Unexpected token in JSON"
FilterTypeError == "Cannot read properties of undefined (reading 'filter')"

\* the catch block without the run.end() that follows it
caughtOnly(message, output) ==
    <<appendOutput("Error parsing JSON: " \o message \o "\n"),
      appendOutput("Output was:\n" \o output \o "\n")>>

\* lines 313-316 and 322: the catch block, then run.end()
caught(message, output) ==
    <<appendOutput("Error parsing JSON: " \o message \o "\n"),
      appendOutput("Output was:\n" \o output \o "\n"),
      Report("end", 0, "", <<>>)>>

\* lines 304-309: the parsed results written to the run's output
prettyOutput(t) ==
    appendOutput("\n\r\n\r=== Test Results (JSON) ===\n\r" \o t \o "\n\r\n")

\* handleResults starts at the first entry
context(heap, log) ==
    [heap |-> heap, log |-> log, idx |-> 1, aidx |-> 1, kids |-> <<>>, status |-> "go"]

\* the run after handleResults has come to the context c
settle(r, c) ==
    [r EXCEPT !.idx = c.idx, !.aidx = c.aidx, !.kids = c.kids,
              !.log = c.log \o (IF c.status = "await" THEN <<>>
                                ELSE IF c.status = "threw"
                                THEN caught(FilterTypeError, r.output)
                                ELSE <<Report("end", 0, "", <<>>)>>),
              !.pc = IF c.status = "await" THEN "reconciling" ELSE "ended"]

\* the close handler for a payload that parsed, lines 302-311
reconcile(heap, r, t) ==
    [r EXCEPT !.results = testResultsOf(t),
              !.log = Append(@, prettyOutput(t))]

\* makeProcess 'close', lines 288-318, and run.end() when nothing is awaited
OnClose ==
    /\ run.pc = "running"
    /\ run.chunks = <<>>
    /\ run.stderr = <<>>
    /\ \E jsonStr \in {jsonStrOf(run.output)} :
       \E t \in {IF jsonStr = None THEN None ELSE stripWhiteSpace(jsonStr)} :
           IF trim(run.output) = ""
           THEN /\ run' = [run EXCEPT !.pc = "ended",
                                      !.log = Append(@, Report("end", 0, "", <<>>))]
                /\ UNCHANGED items
           ELSE IF jsonStr = None
           THEN /\ run' = [run EXCEPT !.pc = "ended",
                              !.log = @ \o <<appendOutput("Could not find valid JSON in output\n"),
                                             Report("end", 0, "", <<>>)>>]
                /\ UNCHANGED items
           ELSE IF ~validJSON(t)
           THEN /\ run' = [run EXCEPT !.pc = "ended",
                                      !.log = @ \o caught(JSONParseError, run.output)]
                /\ UNCHANGED items
           ELSE \E r \in {reconcile(items, run, t)} :
                \E c \in {handleResults(context(items, r.log), r.results, r.targets)} :
                    /\ run' = settle(r, c)
                    /\ items' = c.heap
    /\ UNCHANGED <<roots, passes, tagRegistry, scan, mapper>>

\* the read of the file awaited by mapFunctionLineToSourceLine (line 370)
\* returns content: the assertion is reported and handleResults goes on
ResumeHandleResults ==
    /\ run.pc = "reconciling"
    /\ \E content \in FileContents :
       \E f \in {run.targets[findTarget(run.targets, run.results[run.idx])].item} :
       \E a \in {run.results[run.idx].assertions[run.aidx]} :
       \E sourceLine \in {mapFunctionLineToSourceLine(content, a.functionName, a.line)} :
       \E reported \in {reportAssertion(
                            [heap |-> items, log |-> run.log, idx |-> run.idx,
                             aidx |-> run.aidx, kids |-> run.kids, status |-> "go"],
                            f, a, sourceLine)} :
       \E c \in {handleResults(reported, run.results, run.targets)} :
           /\ run' = settle(run, c)
           /\ items' = c.heap
    /\ UNCHANGED <<roots, passes, tagRegistry, scan, mapper>>

InitParse == ScanInit /\ mapper = MapIdle /\ SysInit

NextParse == ScanSplit \/ ScanLine \/ ScanReturn

SpecParse == InitParse /\ [][NextParse]_vars

InitMap == MapInit /\ scan = ScanIdle /\ SysInit

NextMap == MapFind \/ MapWalk \/ MapMiss

SpecMap == InitMap /\ [][NextMap]_vars

InitBuild == SysInit /\ scan = ScanIdle /\ mapper = MapIdle

NextBuild == FirstPass \/ BuildPass

SpecBuild == InitBuild /\ [][NextBuild]_vars

\* The passes of discoverTests on the one file, whose reads can return in
\* any order and within the same millisecond.

\* what a read of the file returns in these passes
PassTexts ==
    FileContents \cup {"// #tags: slow\nFunction test_c($t)\n  $x:=1",
                       "// #tags: unit\nFunction test_a($t)\n  $x:=1",
                       "// #tags: fast\nFunction test_b($t)"}

\* the read of a pending pass returns; the clock has moved or not
AnyPass == ReadsFile(PassTexts, {0, 1}, {"throws"})

\* discoverTests for the file once more
NextDiscover == Len(passes) < MaxPasses /\ StartPass

InitPasses == SysInit /\ scan = ScanIdle /\ mapper = MapIdle

NextPasses == NextDiscover \/ AnyPass

SpecPasses == InitPasses /\ [][NextPasses]_vars

\* The requests made on a tree that an earlier run has given assertion items.

\* the file with the two test functions
TwoFunctions ==
    "// #tags: unit\nFunction test_a($t)\n// #tags: fast\nFunction test_b($t)\n"

\* discoverTests and updateFromDisk on that file, from the empty controller
DiscoveredTree ==
    updateFromDisk(<<createTestItem(FsPath, split(FsPath, "/")[Len(split(FsPath, "/"))])>>,
                   <<1>>, <<>>, 1, TwoFunctions, 1, "throws")

\* handleResults of an earlier run of all tests, whose payload had the entry T
EarlierRun ==
    handleResults(context(DiscoveredTree.heap, <<>>), testResultsOf("{T}"),
                  collect(DiscoveredTree.heap, DiscoveredTree.roots, FALSE, <<>>))

InitSelect ==
    /\ items = EarlierRun.heap
    /\ roots = DiscoveredTree.roots
    /\ tagRegistry = DiscoveredTree.registry
    /\ passes = <<[item |-> 1, content |-> TwoFunctions]>>
    /\ run = RunIdle
    /\ scan = ScanIdle
    /\ mapper = MapIdle

\* request.include with two items of the tree
Selections(heap, rs) == {<<i, j>> : i \in InTree(heap, rs), j \in InTree(heap, rs)}

\* what the subprocess writes to stdout in these runs: also an assertion made
\* in another function than the entry's, and a well-formed entry after one
\* without assertions
SelectOutputs == Outputs \cup {<<"{H}\n">>, <<"{MB}\n">>}

\* runTests from the default profile with two items of the tree selected
RunSelection ==
    /\ run.pc = "idle"
    /\ \E include \in Selections(items, roots), cancelled \in BOOLEAN,
          out \in SelectOutputs, err \in ErrOutputs :
           run' = startTestRun(items, roots, include, FALSE, RunAllLabel, cancelled, out, err)
    /\ UNCHANGED <<items, roots, passes, tagRegistry, scan, mapper>>

NextSelect ==
    \/ RunSelectedTests
    \/ RunSelection
    \/ RunTestsByTag
    \/ OnStdoutData
    \/ OnStderrData
    \/ OnClose
    \/ ResumeHandleResults

SpecSelect == InitSelect /\ [][NextSelect]_vars

Init == SysInit /\ scan = ScanIdle /\ mapper = MapIdle

Next ==
    \/ StartPass
    \/ FinishPass
    \/ RunAllTests
    \/ RunSelectedTests
    \/ RunTestsByTag
    \/ OnStdoutData
    \/ OnStderrData
    \/ OnClose
    \/ ResumeHandleResults

Spec == Init /\ [][Next]_vars

\* The runs requested on the discovered tree, when the subprocess delivers
\* what it wrote and closes ('data' and 'close' are emitted by the child
\* process), and the file read that mapFunctionLineToSourceLine awaits returns.
Fairness ==
    /\ WF_vars(OnStdoutData)
    /\ WF_vars(OnStderrData)
    /\ WF_vars(OnClose)
    /\ WF_vars(ResumeHandleResults)

LiveSpec == InitSelect /\ [][NextSelect]_vars /\ Fairness

(***************************************************************************)
(* Properties of the scanner                                               *)
(***************************************************************************)

\* a line that is a `Function test_<Name>(...)` declaration
IsTestDeclaration(line) ==
    /\ startsWith(line, "Function test_")
    /\ includes(From(line, Len("Function test_") + 1), "(")

\* the 0-based indices of the declaration lines of the scanned text
DeclarationLines ==
    {i \in 0..(Len(scan.lines) - 1) : IsTestDeclaration(scan.lines[i + 1])}

\* C3: when parseMarkdown returns, it has made exactly one onHeading call for
\* each `Function test_<Name>(...)` line of the text, whatever the line before
\* it is, in file order, each with a range that starts at column 0 of the
\* declaration's own line.
C3_OneHeadingPerDeclaration ==
    scan.pc = "done" =>
        /\ Len(scan.events) = Cardinality(DeclarationLines)
        /\ \A k \in 1..Len(scan.events) :
               /\ scan.events[k].range.startLine \in DeclarationLines
               /\ scan.events[k].range.startCol = 0
        /\ \A j, k \in 1..Len(scan.events) :
               j < k => scan.events[j].range.startLine < scan.events[k].range.startLine

\* the payload of the tag comment of a line: what follows "// #tags:", or None
\* when the line holds no tag comment
TagPayload(line) ==
    IF includes(line, "// #tags:")
    THEN From(line, indexOf(line, "// #tags:") + Len("// #tags:"))
    ELSE None

\* the line before the 0-based line i (None for the first line)
LineBefore(i) == IF i = 0 THEN None ELSE scan.lines[i]

OnlyWhiteSpace(s) == \A i \in 1..Len(s) : CharAt(s, i) \in WhiteSpace

\* C9: every onHeading call carries a non-empty tag list, and a heading with no
\* tag comment on the line before it, or with one whose payload is empty or
\* only whitespace, carries exactly <<"unit">>.
C9_DefaultTagIsUnit ==
    scan.pc = "done" =>
        \A k \in 1..Len(scan.events) :
            LET before  == LineBefore(scan.events[k].range.startLine)
                payload == IF before = None THEN None ELSE TagPayload(before)
            IN  /\ scan.events[k].tags # <<>>
                /\ (payload = None \/ OnlyWhiteSpace(payload))
                       => scan.events[k].tags = <<"unit">>

(***************************************************************************)
(* Properties of the mapper                                                *)
(***************************************************************************)

\* the line ends, trailing whitespace ignored, in a backslash
EndsInBackslash(line) ==
    \E i \in 1..Len(line) :
        /\ CharAt(line, i) = "\\"
        /\ \A j \in (i + 1)..Len(line) : CharAt(line, j) \in WhiteSpace

\* the trailing identifier of a possibly qualified function name
SimpleName(functionName) == From(functionName, lastIndexOf(functionName, ".") + 1)

\* the 0-based indices of the lines that declare `Function <simple name>(`
Declarations(lines, functionName) ==
    {i \in 0..(Len(lines) - 1) :
        includes(lines[i + 1], "Function " \o SimpleName(functionName) \o "(")}

\* the logical lines completed on the physical lines d+1 .. r
CompletedBetween(lines, d, r) ==
    Cardinality({i \in (d + 1)..r : ~EndsInBackslash(lines[i + 1])})

\* C7: when the mapper returns a line r for the offset k, exactly k logical
\* lines are completed on the lines after the declaration up to r and r itself
\* completes one; without continuation lines r is the declaration line plus k;
\* and every larger offset that maps to a line maps to a line after r.
C7_MapsToKthLogicalLine ==
    (mapper.pc = "done" /\ mapper.result # NotFound) =>
        LET lines == split(mapper.content, "\n")
            d     == Min(Declarations(lines, mapper.functionName))
            r     == mapper.result
            k     == mapper.lineOffset
        IN  /\ Declarations(lines, mapper.functionName) # {}
            /\ ~EndsInBackslash(lines[r + 1])
            /\ CompletedBetween(lines, d, r) = k
            /\ (\A i \in 1..Len(lines) : ~EndsInBackslash(lines[i])) => r = d + k
            /\ \A k2 \in (k + 1)..(MaxOffset + 1) :
                   LET r2 == mapFunctionLineToSourceLine(mapper.content,
                                                         mapper.functionName, k2)
                   IN  r2 # NotFound => r2 > r

\* a call that returned a line after skipping a continuation line, for an
\* offset of at least 2
C7_Witness ==
    /\ mapper.pc = "done"
    /\ mapper.result # NotFound
    /\ mapper.lineOffset >= 2
    /\ \E i \in (mapper.start + 1)..mapper.result :
           EndsInBackslash(mapper.lines[i + 1])

\* the lines of the file: a final line break ends the last line, it does not
\* begin another one
FileLines(content) ==
    LET lines == split(content, "\n")
    IN  IF Len(lines) > 1 /\ lines[Len(lines)] = ""
        THEN SubSeq(lines, 1, Len(lines) - 1)
        ELSE lines

\* C8: the mapper returns NotFound when no line declares the function and when
\* the offset is greater than the number of logical lines that follow the
\* declaration in the file, with or without a final line break; a line it
\* returns lies in the file, after the declaration line.
C8_NotFoundBeyondFile ==
    mapper.pc = "done" =>
        LET lines == FileLines(mapper.content)
            decls == Declarations(lines, mapper.functionName)
            d     == Min(decls)
        IN  /\ decls = {} => mapper.result = NotFound
            /\ (decls # {} /\ mapper.lineOffset > CompletedBetween(lines, d, Len(lines) - 1))
                   => mapper.result = NotFound
            /\ mapper.result # NotFound
                   => (decls # {} /\ d < mapper.result /\ mapper.result < Len(lines))

(***************************************************************************)
(* Properties of the tree and of a run                                     *)
(***************************************************************************)

\* the suite.function names of the targets
TargetNames(targets) ==
    {targets[k].suite \o "." \o targets[k].func : k \in 1..Len(targets)}

\* C1: the runner is invoked with test, format=json and then: tag=<T> alone when
\* the run was requested through the profile getOrCreateTag created for the
\* tag T; nothing when the request is 'run all'; otherwise one test= argument
\* with the comma-separated names of the targets.
C1_RunnerArguments ==
    run.spawns > 0 =>
        IF \E k \in 1..Len(tagRegistry) : run.label = profileName(tagRegistry[k])
        THEN \E k \in 1..Len(tagRegistry) :
                 /\ run.label = profileName(tagRegistry[k])
                 /\ run.cmdArgs = <<"test", "format=json", "tag=" \o tagRegistry[k]>>
        ELSE IF run.all
        THEN run.cmdArgs = <<"test", "format=json">>
        ELSE /\ Len(run.cmdArgs) = 3
             /\ SubSeq(run.cmdArgs, 1, 2) = <<"test", "format=json">>
             /\ startsWith(run.cmdArgs[3], "test=")
             /\ Elements(split(From(run.cmdArgs[3], Len("test=") + 1), ","))
                    = TargetNames(run.targets)

\* the reports a step adds to the run
NewReports == {run'.log[k] : k \in (Len(run.log) + 1)..Len(run'.log)}

TargetItems(targets) == {targets[k].item : k \in 1..Len(targets)}

\* C2: when a heading is reported passed or failed, or gets its children
\* replaced, and the tree holds a heading under that name at that moment, the
\* node reported on is the node that is in the tree.
C2_ResultsLandOnCurrentHeading ==
    [][\A r \in NewReports :
           (/\ r.kind \in {"passed", "failed", "replace"}
            /\ r.item \in TargetItems(run'.targets)
            /\ \E j \in InTree(items', roots') : items'[j].id = items'[r.item].id)
               => r.item \in InTree(items', roots')]_vars

\* the buffered output cannot be resolved to a payload
Unresolvable(output) ==
    \/ ~includes(output, "{")
    \/ ~includes(output, "}")
    \/ indexOf(output, "{") > lastIndexOf(output, "}")
    \/ ~validJSON(stripWhiteSpace(SubSeq(output, indexOf(output, "{"),
                                         lastIndexOf(output, "}"))))

IsDiagnostic(r) ==
    /\ r.kind = "output"
    /\ \/ startsWith(r.text, "Could not find valid JSON")
       \/ startsWith(r.text, "Error parsing JSON")

\* C4: a run whose subprocess output cannot be resolved to a payload (the empty
\* output included) has emitted a diagnostic message when it has ended, and has
\* reported no passed or failed and replaced no children.
C4_UnresolvedPayloadIsDiagnosed ==
    (run.pc = "ended" /\ run.spawns > 0 /\ Unresolvable(run.output)) =>
        /\ \E k \in 1..Len(run.log) : IsDiagnostic(run.log[k])
        /\ \A k \in 1..Len(run.log) :
               run.log[k].kind \notin {"passed", "failed", "replace"}

\* the entries of the payload that match a target
Matched == {k \in 1..Len(run.results) : findTarget(run.targets, run.results[k]) # 0}

\* the item of the target the entry k matches
TargetItemOf(k) == run.targets[findTarget(run.targets, run.results[k])].item

\* the report the entry e asks for on its heading
ExpectedReport(e, item) ==
    IF e.passed THEN Report("passed", item, "", <<>>)
    ELSE Report("failed", item,
                ToString(Cardinality({i \in 1..Len(e.assertions) : ~e.assertions[i].passed}))
                \o " of " \o ToString(e.assertionCount) \o " assertions failed",
                <<>>)

\* C5: once the run has ended, every result entry matched to a heading has its
\* report on that heading, passed when the entry's passed is true and otherwise
\* failed with "k of n assertions failed" (k failed assertions of the entry,
\* n its assertionCount), and the headings have no other passed or failed
\* report.
C5_HeadingStatusFollowsPassed ==
    (run.pc = "ended" /\ run.results # <<>>) =>
        /\ \A k \in Matched :
               \E j \in 1..Len(run.log) :
                   run.log[j] = ExpectedReport(run.results[k], TargetItemOf(k))
        /\ \A j \in 1..Len(run.log) :
               (run.log[j].kind \in {"passed", "failed"}
                /\ run.log[j].item \in TargetItems(run.targets))
                   => \E k \in Matched :
                          run.log[j] = ExpectedReport(run.results[k], TargetItemOf(k))

\* the diagnostic lines of the run that name the entry e
WarningsFor(e) ==
    {j \in 1..Len(run.log) :
        /\ run.log[j].kind = "output"
        /\ startsWith(run.log[j].text, "Warning")
        /\ includes(run.log[j].text, e.suite \o "." \o e.name)}

\* C6: once the run has ended on a payload that parsed, there is exactly one
\* diagnostic line for each entry that matches no targeted heading, and every
\* matched entry after such an entry has a passed or failed report on its
\* heading.
C6_UnmatchedEntryIsSkipped ==
    (run.pc = "ended" /\ run.results # <<>>) =>
        \A k \in (1..Len(run.results)) \ Matched :
            /\ Cardinality(WarningsFor(run.results[k]))
                   = Cardinality({i \in (1..Len(run.results)) \ Matched :
                                     /\ run.results[i].suite = run.results[k].suite
                                     /\ run.results[i].name = run.results[k].name})
            /\ \A i \in Matched :
                   i > k => \E j \in 1..Len(run.log) :
                                /\ run.log[j].kind \in {"passed", "failed"}
                                /\ run.log[j].item = TargetItemOf(i)

\* the text holds no `Function test_` declaration
NoTestFunction(text) == ~includes(text, "Function test_")

NoTestTexts == {text \in SourceTexts \cup FileContents : NoTestFunction(text)}

ParseFindsNoFunction == \A text \in NoTestTexts : ~parseMarkdown(text).found

\* no parse pass is in progress
NoPassInProgress == \A k \in 1..Len(passes) : passes[k].content # None

FilesHaveHeadings ==
    \A r \in Elements(roots) :
        \E c \in Elements(items[r].children) : startsWith(items[c].label, "test_")

IsAssertStatement(line) ==
    /\ includes(line, "assert.")
    /\ includes(From(line, indexOf(line, "assert.") + Len("assert.")), "(")

\* the operator name of an assertion statement
OperatorOf(line) ==
    SubSeq(From(line, indexOf(line, "assert.") + Len("assert.")), 1,
           indexOf(From(line, indexOf(line, "assert.") + Len("assert.")), "(") - 1)

\* the last quoted string of the line, None when it has none
LastQuoted(line) ==
    IF Cardinality(Occurrences(line, "\"")) < 2 THEN None
    ELSE SubSeq(line,
                Max(Occurrences(line, "\"") \ {lastIndexOf(line, "\"")}) + 1,
                lastIndexOf(line, "\"") - 1)

\* the 0-based indices of the assertion statements of the scanned text
AssertLines ==
    {i \in 0..(Len(scan.lines) - 1) : IsAssertStatement(scan.lines[i + 1])}

\* C12: when parseMarkdown returns, it has made one onTest call for every
\* assert.<operator>(...) statement of the text, with the operator name and the
\* last quoted string as shouldMessage, and all its calls, onHeading and onTest,
\* are in file order.
C12_OneAssertionEventPerStatement ==
    scan.pc = "done" =>
        /\ \A i \in AssertLines :
               \E k \in 1..Len(scan.events) :
                   /\ scan.events[k].kind = "test"
                   /\ scan.events[k].range.startLine = i
                   /\ scan.events[k].operator = OperatorOf(scan.lines[i + 1])
                   /\ scan.events[k].should = LastQuoted(scan.lines[i + 1])
        /\ Cardinality({k \in 1..Len(scan.events) : scan.events[k].kind = "test"})
               = Cardinality(AssertLines)
        /\ \A j, k \in 1..Len(scan.events) :
               j < k => scan.events[j].range.startLine < scan.events[k].range.startLine

\* the heading items: the items made for a `Function test_` declaration
HeadingItems ==
    {i \in 1..Len(items) : startsWith(items[i].label, "test_") /\ items[i].range # NoRange}

\* the assertion statements of the function declared on the 0-based line l:
\* those between l and the next Function declaration
AssertionsOfFunction(lines, l) ==
    {i \in (l + 1)..(Len(lines) - 1) :
        /\ IsAssertStatement(lines[i + 1])
        /\ \A j \in (l + 1)..i : ~startsWith(lines[j + 1], "Function ")}

\* the children of the item that are not headings
AssertionChildren(h) == {c \in Elements(items[h].children) : c \notin HeadingItems}

\* C11: after a pass, the assertion children of every heading are as many as
\* the assertion statements of its function and have pairwise distinct ranges,
\* also when the statements carry the same message.
C11_EqualMessagesStayDistinct ==
    (Len(passes) = 1 /\ passes[1].content # None) =>
        \A h \in HeadingItems :
            /\ Cardinality(AssertionChildren(h))
                   = Cardinality(AssertionsOfFunction(split(passes[1].content, "\n"),
                                                      items[h].range.startLine))
            /\ \A c, d \in AssertionChildren(h) :
                   c # d => items[c].range # items[d].range

(***************************************************************************)
(* Further properties of a run                                             *)
(***************************************************************************)

\* the failures array of the payload the run has parsed
Failures == failuresOf(stripWhiteSpace(jsonStrOf(run.output)))

\* C13: once the run has ended, a matched entry with passed=false for which the
\* payload's failures array holds an entry with the same suite and test has a
\* failed report on its heading whose message holds that failure's reason
\* before the assertion summary.
C13_FailureReasonIsPrepended ==
    (run.pc = "ended" /\ run.results # <<>>) =>
        \A k \in Matched :
            \A f \in Elements(Failures) :
                (/\ ~run.results[k].passed
                 /\ f.suite = run.results[k].suite
                 /\ f.test = run.results[k].name)
                    => \E j \in 1..Len(run.log) :
                           /\ run.log[j].kind = "failed"
                           /\ run.log[j].item = TargetItemOf(k)
                           /\ includes(run.log[j].text, f.reason)
                           /\ indexOf(run.log[j].text, f.reason)
                                  < indexOf(run.log[j].text, "assertions failed")

\* the reports of the kind in the run's log
ReportsOf(kind) == {j \in 1..Len(run.log) : run.log[j].kind = kind}

\* the announcements of a spawn in the run's log
Spawnings ==
    {j \in ReportsOf("output") : startsWith(run.log[j].text, "Spawning: make ")}

\* C14: a run request spawns at most one subprocess; it spawns none when its
\* token was cancelled before the spawn or when no test function is targeted,
\* and such a run has ended: run.end was called, once.
C14_AtMostOneSubprocess ==
    /\ run.spawns <= 1
    /\ Cardinality(Spawnings) = run.spawns
    /\ (run.pc # "idle" /\ (run.cancelled \/ run.targets = <<>>)) =>
           /\ run.spawns = 0
           /\ run.pc = "ended"
           /\ Cardinality(ReportsOf("end")) = 1

\* a cancelled request on a tree that holds test functions has ended without a
\* subprocess
C14_Witness ==
    /\ run.cancelled
    /\ run.pc = "ended"
    /\ run.spawns = 0
    /\ \E i \in InTree(items, roots) : startsWith(items[i].label, "test_")
    /\ Cardinality(ReportsOf("end")) = 1

\* the replacements of children a step adds to the run's log
NewReplacements ==
    {j \in (Len(run.log) + 1)..Len(run'.log) : run'.log[j].kind = "replace"}

\* the kids are one item per assertion of the entry, in the reported order
OnePerAssertion(item, kids, testResult) ==
    /\ Len(kids) = Len(testResult.assertions)
    /\ \A p \in 1..Len(kids) :
           /\ items[kids[p]].id = items[item].id \o "/assertion-" \o ToString(p - 1)
           /\ items[kids[p]].label
                  = (IF Truthy(testResult.assertions[p].message)
                     THEN testResult.assertions[p].message
                     ELSE "Assertion " \o ToString(p))
    /\ \A p, q \in 1..Len(kids) : p < q => kids[p] # kids[q]

\* C15: a replacement of a heading's children puts in one item per assertion
\* of a matched entry, in the reported order; the step that makes it leaves
\* the heading with exactly these items, none of them a child it had before;
\* and no step changes the children of a targeted heading in another way.
C15_ChildrenAreReplacedAsOne ==
    /\ [](\A j \in ReportsOf("replace") :
              \E k \in Matched :
                  /\ TargetItemOf(k) = run.log[j].item
                  /\ OnePerAssertion(run.log[j].item, run.log[j].kids, run.results[k]))
    /\ [][/\ \A j \in NewReplacements :
                 /\ Elements(run'.log[j].kids)
                        \cap Elements(items[run'.log[j].item].children) = {}
                 /\ (\A i \in NewReplacements : run'.log[i].item = run'.log[j].item => i <= j)
                        => items'[run'.log[j].item].children = run'.log[j].kids
          /\ \A h \in TargetItems(run.targets) :
                 \/ items'[h].children = items[h].children
                 \/ \E j \in NewReplacements : run'.log[j].item = h]_vars

\* a heading that had assertion children from an earlier entry has had them
\* replaced by those of a later entry
C15_Witness ==
    /\ run.pc = "ended"
    /\ \E i, j \in ReportsOf("replace") :
           /\ i < j
           /\ run.log[i].item = run.log[j].item
           /\ run.log[i].kids # <<>>
           /\ run.log[j].kids # <<>>
           /\ items[run.log[j].item].children = run.log[j].kids

\* the positions of the log that report a status or a replacement of children
Verdicts == ReportsOf("passed") \cup ReportsOf("failed") \cup ReportsOf("replace")

\* the log of a run that has spawned begins with the started mark of every
\* target, followed by the line written right before the spawn
StartedThenSpawned ==
    /\ Len(run.log) > Len(run.targets)
    /\ \A k \in 1..Len(run.targets) :
           run.log[k] = Report("started", run.targets[k].item, "", <<>>)
    /\ run.log[Len(run.targets) + 1].kind = "output"
    /\ startsWith(run.log[Len(run.targets) + 1].text, "Spawning: make ")

\* C16: a run that has spawned has marked every target started before the
\* spawn; while the subprocess has not closed, the buffer is not parsed and
\* nothing is passed, failed or replaced, whatever the buffer holds; parsing
\* and the verdicts come with the close event or after it.
C16_ParsedOnlyAfterClose ==
    /\ [](run.spawns = 1 => StartedThenSpawned)
    /\ [](run.pc = "running" =>
              /\ run.results = <<>>
              /\ Verdicts = {}
              /\ \A j \in (Len(run.targets) + 2)..Len(run.log) : run.log[j].kind = "output")
    /\ [][(\/ run'.results # run.results
            \/ \E j \in (Len(run.log) + 1)..Len(run'.log) :
                   run'.log[j].kind \in {"passed", "failed", "replace"})
          => \/ run.pc = "running" /\ run.chunks = <<>> /\ run.stderr = <<>>
             \/ run.pc = "reconciling"]_vars

\* the buffer holds a whole payload that parses, the subprocess has not closed
\* and no verdict has been given
C16_Witness ==
    /\ run.pc = "running"
    /\ run.chunks = <<>>
    /\ jsonStrOf(run.output) # None
    /\ validJSON(stripWhiteSpace(jsonStrOf(run.output)))
    /\ testResultsOf(stripWhiteSpace(jsonStrOf(run.output))) # <<>>
    /\ Verdicts = {}
    /\ StartedThenSpawned

\* the entry has what handleResults reads: passed is true or it has assertions
WellFormed(e) == e.passed \/ e.hasAssertions

\* C17: once the run has ended on a payload that parsed, every well-formed
\* entry matched to a targeted heading has a passed or failed report on that
\* heading, also when an entry before it has passed=false and no assertions.
C17_ErrorIsLocalToEntry ==
    (run.pc = "ended" /\ run.results # <<>>) =>
        \A k \in Matched :
            WellFormed(run.results[k]) =>
                \E j \in ReportsOf("passed") \cup ReportsOf("failed") :
                    run.log[j].item = TargetItemOf(k)

(***************************************************************************)
(* Properties of the shape of the tree                                     *)
(***************************************************************************)

\* C20: after a pass, every heading is a child of the file of the pass and
\* of no other item, and no heading has a heading among its children,
\* whatever its tag comment holds.
C20_HeadingsAreChildrenOfTheFile ==
    \A k \in 1..Len(passes) :
        passes[k].content # None =>
            \A h \in HeadingItems :
                /\ items[h].parent = passes[k].item
                /\ \A i \in 1..Len(items) :
                       h \in Elements(items[i].children) => i = passes[k].item
                /\ Elements(items[h].children) \cap HeadingItems = {}

(***************************************************************************)
(* Properties of the selection of targets                                  *)
(***************************************************************************)

\* the item and the items above it
RECURSIVE PathToRoot(_)
PathToRoot(i) == IF i = 0 THEN {} ELSE {i} \cup PathToRoot(items[i].parent)

\* the headings a selected item stands for: the child of the file on the path
\* from the file to the item, and every child of the file for the file itself
HeadingsFor(i) ==
    IF items[i].parent = 0
    THEN {h \in 1..Len(items) : items[h].parent = i /\ h \in Elements(items[i].children)}
    ELSE {h \in PathToRoot(i) : items[h].parent # 0 /\ items[items[h].parent].parent = 0}

\* the pairs (suite, function) of the run's targets
TargetPairs == {<<run.targets[t].suite, run.targets[t].func>> : t \in 1..Len(run.targets)}

\* C18: for a request with an include list that is not cancelled, the pairs of
\* the targets are exactly the pairs of the headings the included items stand
\* for.
C18_TargetsAreTheSelectedHeadings ==
    (run.pc = "running" /\ ~run.all /\ ~run.cancelled) =>
        TargetPairs
            = {<<"UserServiceTest", items[h].label>> :
                   h \in UNION {HeadingsFor(run.include[k]) : k \in 1..Len(run.include)}}

\* the names of the function list passed to the runner
FunctionList == split(From(run.cmdArgs[3], Len("test=") + 1), ",")

\* C19: when a function list is passed to the runner, its names are pairwise
\* different and are the names suite.function of the targets.
C19_FunctionListHasNoDuplicate ==
    (run.spawns = 1 /\ Len(run.cmdArgs) = 3 /\ startsWith(run.cmdArgs[3], "test=")) =>
        /\ \A p, q \in 1..Len(FunctionList) : p < q => FunctionList[p] # FunctionList[q]
        /\ Elements(FunctionList)
               = {run.targets[t].suite \o "." \o run.targets[t].func :
                      t \in 1..Len(run.targets)}

\* a heading was reached twice and two different items have the same pair
C19_Witness ==
    /\ run.spawns = 1
    /\ Len(run.cmdArgs) = 3
    /\ startsWith(run.cmdArgs[3], "test=")
    /\ \E a, b \in 1..Len(run.targets) :
           a < b /\ run.targets[a].item = run.targets[b].item
    /\ \E a, b \in 1..Len(run.targets) :
           /\ run.targets[a].item # run.targets[b].item
           /\ run.targets[a].func = run.targets[b].func
    /\ Len(FunctionList) < Len(run.targets)

\* the File entities of the tree
FileItems == {f \in InTree(items, roots) : items[f].parent = 0}

\* the text declares test_a more than once
DeclaresTwice(text) == Cardinality(Occurrences(text, "Function test_a(")) > 1

\* C21: no File entity of the tree has two children with the same name, also
\* after a pass on a text that declares a function twice.
C21_HeadingNamesAreUnique ==
    \A f \in FileItems :
        \A p, q \in 1..Len(items[f].children) :
            p < q => items[items[f].children[p]].label # items[items[f].children[q]].label

\* a pass has read a text that declares test_a twice and its file is in the
\* tree
C21_Witness ==
    /\ \E k \in 1..Len(passes) :
           /\ passes[k].content # None
           /\ DeclaresTwice(passes[k].content)
           /\ passes[k].item \in FileItems
    /\ C21_HeadingNamesAreUnique

(***************************************************************************)
(* Properties of the assertion items of a run                              *)
(***************************************************************************)

\* the range r begins after the end of the range h
StrictlyAfter(r, h) ==
    \/ r.startLine > h.endLine
    \/ r.startLine = h.endLine /\ r.startCol > h.endCol

\* C22: in the tree, an assertion item that has a range has it strictly after
\* the range of the heading it is a child of.
C22_AssertionRangeFollowsHeading ==
    \A h \in HeadingItems \cap InTree(items, roots) :
        \A c \in AssertionChildren(h) :
            items[c].range # NoRange => StrictlyAfter(items[c].range, items[h].range)

\* the item c has its started report and, after it, the report of the
\* assertion a: passed when a passed, failed otherwise
AssertionReported(c, a) ==
    \E i, j \in 1..Len(run.log) :
        /\ i < j
        /\ run.log[i].kind = "started" /\ run.log[i].item = c
        /\ run.log[j].kind = (IF a.passed THEN "passed" ELSE "failed")
        /\ run.log[j].item = c

\* the entry has an assertion without a line or without a functionName
HasUnmappedAssertion(e) ==
    \E p \in 1..Len(e.assertions) : ~needsMap(e.assertions[p])

\* C23: once the run has ended on a payload that parsed, for every matched
\* entry with an assertion that has no line or no functionName the heading
\* has been given one item per assertion of the entry, each with its started
\* and passed or failed report, the items of the assertions without line
\* or functionName have no range, and the heading has the report its entry
\* asks for.
C23_UnmappedAssertionIsReported ==
    (run.pc = "ended" /\ run.results # <<>>) =>
        \A k \in Matched :
            HasUnmappedAssertion(run.results[k]) =>
                /\ \E j \in ReportsOf("replace") :
                       /\ run.log[j].item = TargetItemOf(k)
                       /\ OnePerAssertion(run.log[j].item, run.log[j].kids, run.results[k])
                       /\ \A p \in 1..Len(run.log[j].kids) :
                              /\ AssertionReported(run.log[j].kids[p],
                                                   run.results[k].assertions[p])
                              /\ ~needsMap(run.results[k].assertions[p])
                                     => items[run.log[j].kids[p]].range = NoRange
                /\ \E j \in 1..Len(run.log) :
                       run.log[j] = ExpectedReport(run.results[k], TargetItemOf(k))

\* the passed and failed reports of the item c
VerdictsOf(c) ==
    {j \in ReportsOf("passed") \cup ReportsOf("failed") : run.log[j].item = c}

\* the reports that end at position j - 1 are those of the assertions of the
\* entry e on the items kids: started and then the verdict, assertion by
\* assertion in the reported order
ReportedInOrder(j, kids, e) ==
    /\ Len(kids) = Len(e.assertions)
    /\ j > 2 * Len(kids)
    /\ \A p \in 1..Len(kids) :
           /\ run.log[j - 2 * (Len(kids) - p) - 2]
                  = Report("started", kids[p], "", <<>>)
           /\ run.log[j - 2 * (Len(kids) - p) - 1].item = kids[p]
           /\ run.log[j - 2 * (Len(kids) - p) - 1].kind
                  = (IF e.assertions[p].passed THEN "passed" ELSE "failed")
           /\ Cardinality(VerdictsOf(kids[p])) = 1

\* C24: once the run has ended on a payload that parsed, for every matched
\* entry the run has reported, for each assertion of the entry in the
\* reported order, started and then exactly one of passed (the assertion
\* passed) or failed, all of them before the passed or failed report of the
\* heading.
C24_AssertionsReportedInOrder ==
    (run.pc = "ended" /\ run.results # <<>>) =>
        \A k \in Matched :
            \E j \in ReportsOf("replace") :
                /\ run.log[j].item = TargetItemOf(k)
                /\ ReportedInOrder(j, run.log[j].kids, run.results[k])
                /\ run.results[k].assertions # <<>> =>
                       \E i \in VerdictsOf(TargetItemOf(k)) : i > j

(***************************************************************************)
(* Properties of the buffer of the subprocess's output                     *)
(***************************************************************************)

\* the lines that are not empty and do not start with a noise prefix
RECURSIVE KeptLines(_)
KeptLines(lines) ==
    IF lines = <<>> THEN <<>>
    ELSE (IF lines[1] = "" \/ \E p \in NoisePrefixes : startsWith(lines[1], p)
          THEN <<>> ELSE <<lines[1]>>)
         \o KeptLines(Tail(lines))

\* C25: when the subprocess has closed, the lines of the buffer are the lines
\* the subprocess wrote that do not start with a noise prefix, each unchanged
\* and in order, however the output came in chunks (empty lines aside).
C25_BufferIndependentOfChunks ==
    (run.spawns = 1 /\ run.chunks = <<>>) =>
        KeptLines(split(run.output, "\n")) = KeptLines(split(run.written, "\n"))

(***************************************************************************)
(* Properties of the passes                                                *)
(***************************************************************************)

\* the pass k gets the text of its file in this step
Finalizes(k) == passes[k].content = None /\ passes'[k].content # None

\* the items a step has created
NewItems == (Len(items) + 1)..Len(items')

\* C26: the items created by a pass all carry one generation, which is greater
\* than the generation of every item of the passes finalized before it, and
\* when the pass is finalized the subtree of its file holds no heading of
\* another generation.
C26_GenerationsIncrease ==
    [][\A k \in 1..Len(passes) :
           Finalizes(k) =>
               /\ \A i, j \in NewItems :
                      /\ items'[i].generation = items'[j].generation
                      /\ items'[i].generation # NoGeneration
               /\ \A i \in NewItems, j \in 1..Len(items) :
                      items'[i].generation > items[j].generation
               /\ \A i \in Descendants(items', passes[k].item) \ {passes[k].item} :
                      \A j \in NewItems : items'[i].generation = items'[j].generation]_vars

\* the names of the children of the item, in order
ChildNames(i) == [p \in 1..Len(items[i].children) |-> items[items[i].children[p]].label]

\* the names of the functions parseMarkdown reports for the text
DeclaredNames(text) ==
    [p \in 1..Len(parseMarkdown(text).events) |-> parseMarkdown(text).events[p].name]

\* C29: once every pass that was started has finished, the tree is that of
\* the pass that started last: its File item is the file of the tree, with
\* the functions of the text it read as headings, when that text has a test
\* function, and the tree has no file otherwise.
C29_LastStartedPassWins ==
    (passes # <<>> /\ \A k \in 1..Len(passes) : passes[k].content # None) =>
        IF NoTestFunction(passes[Len(passes)].content)
        THEN roots = <<>>
        ELSE /\ roots = <<passes[Len(passes)].item>>
             /\ ChildNames(passes[Len(passes)].item)
                    = DeclaredNames(passes[Len(passes)].content)

(***************************************************************************)
(* Properties of the end of a run                                          *)
(***************************************************************************)

\* the run has called run.end() once, as the last of its reports
EndedOnce ==
    /\ Cardinality(ReportsOf("end")) = 1
    /\ run.log[Len(run.log)].kind = "end"

\* C27: a run that was started ends; it calls run.end() once, when it ends and
\* not before, and after that it reports nothing and replaces no children.
C27_EveryRunEnds ==
    /\ (run.pc # "idle") ~> (run.pc = "ended")
    /\ [](IF run.pc = "ended" THEN EndedOnce ELSE ReportsOf("end") = {})
    /\ [][run.pc = "ended" =>
              /\ run' = run
              /\ \A h \in TargetItems(run.targets) :
                     items'[h].children = items[h].children]_vars

\* the run has ended after an exception of the reconciliation
C27_Witness ==
    /\ run.pc = "ended"
    /\ run.spawns = 1
    /\ EndedOnce
    /\ \E j \in ReportsOf("output") :
           startsWith(run.log[j].text, "Error parsing JSON: " \o FilterTypeError)

(***************************************************************************)
(* Properties of what a run reports on                                     *)
(***************************************************************************)

\* the headings of the tree: the children of its File items
Headings == UNION {Elements(items[r].children) : r \in Elements(roots)}

\* the report j on an item comes after a started report on that item
StartedBefore(j) ==
    \E i \in 1..(j - 1) : run.log[i].kind = "started" /\ run.log[i].item = run.log[j].item

\* the reports of the run on the item h
ReportsOn(h) == {j \in 1..Len(run.log) : run.log[j].kind # "output" /\ run.log[j].kind # "end"
                                           /\ run.log[j].item = h}

\* C28: every passed or failed report of a run, on a heading or on an
\* assertion item, follows a started report of that run on the same item; a
\* heading that is reported on, or whose children are replaced, is a target of
\* the run; a heading of the tree that is not a target has no report and keeps
\* the children it had when the run was requested.
C28_OnlyStartedTargetsAreReported ==
    /\ \A j \in ReportsOf("passed") \cup ReportsOf("failed") : StartedBefore(j)
    /\ \A j \in Verdicts :
           run.log[j].item \in Headings => run.log[j].item \in TargetItems(run.targets)
    /\ \A h \in Headings \ TargetItems(run.targets) :
           /\ ReportsOn(h) = {}
           /\ items[h].children = EarlierRun.heap[h].children

\* a run on test_a alone has ended; its payload had an entry for test_b, a
\* heading of the tree with assertion items, and an entry that was reported
\* with its assertions
C28_Witness ==
    /\ run.pc = "ended"
    /\ \E k \in 1..Len(run.results), h \in Headings \ TargetItems(run.targets) :
           /\ findTarget(run.targets, run.results[k]) = 0
           /\ run.results[k].suite = suiteOf(FsPath)
           /\ run.results[k].name = items[h].label
           /\ items[h].children # <<>>
    /\ \E j \in ReportsOf("passed") : run.log[j].item \in Headings
    /\ \E j \in ReportsOf("passed") : run.log[j].item \notin Headings

====
